---- MODULE Spec2Model ----
(***************************************************************************)
(* Model of delegates::delegate<R(Args...)> (src/delegates.h): an ordered  *)
(* vector of std::function entries with bind, +=, -=, clear, copy, move    *)
(* and invocation.  Two delegate objects of one signature are modelled so  *)
(* that copy and move have a source and a destination.  The signature has  *)
(* one parameter of type std::string (by value or by const reference).     *)
(***************************************************************************)
EXTENDS Integers, Sequences, FiniteSets, TLC

VARIABLES
    callbacks_,   \* callbacks_[d]: the vector of stored entries of delegate d
    sig,          \* the template signature R(Args...) shared by the delegates
    last          \* the last operation performed and what the caller observed

vars == <<callbacks_, sig, last>>

\* Bound on the number of entries one delegate holds in the model.
MaxEntries == 3

\* Bound on the number of entries all delegates of the model hold together.
MaxTotal == 4

Delegates == {"a", "b"}

\* ---------------------------------------------------------------- callables
\* Target types std::function can hold (results of typeid).
FnType      == "R(Args...)"          \* function type (never stored: it decays)
FnPtrType   == "R(*)(Args...)"       \* pointer to function
LambdaType  == "closure#lam"         \* class type of the caller's lambda or function object
MemLamType  == "closure#bind<T>"     \* closure type of the lambda made by bind(T*, method)
StdFunctionType == "std::function<R(Args...)>"   \* the delegate's function_type
VoidType    == "void"                \* target_type() of a std::function without target

NullObj == "nullptr"
NoObj   == "-"
Objects == {"o1"}

\* The callable an expression designates when it designates none: a null
\* function pointer, or a std::function object that holds no target.
NoTarget == "none"

\* Callable expressions a caller can write at a bind / += / -= site; id is
\* the callable the expression designates.
\*   fname:    a free function passed by name                 d.bind(f1)
\*   fptr:     a function pointer value, possibly null        d.bind(&f2)
\*   object:   a lambda or other class-type function object   d.bind(lam)
\*   function: a std::function<R(Args...)> object, wrapping a
\*             callable or empty                              d.bind(sf)
CallableExprs ==
    { [id |-> "f1",     form |-> "fname"],
      [id |-> "f2",     form |-> "fptr"],
      [id |-> NoTarget, form |-> "fptr"],
      [id |-> "lam",    form |-> "object"],
      [id |-> "lam",    form |-> "function"],
      [id |-> NoTarget, form |-> "function"] }

\* Callables whose body raises when called.
Throwing == {"f2"}

\* target_type() of the std::function that emplace_back builds from F&& func.
\* A function name or pointer is stored as a pointer (std::decay_t<F>), a
\* class-type object as itself; a std::function<R(Args...)> argument is
\* copied (or moved), so the entry holds the target it wraps, not the
\* std::function; a null pointer or an empty std::function gives an entry
\* without target.
TargetType(e) ==
    CASE e.id = NoTarget       -> VoidType
      [] e.id \in {"f1", "f2"} -> FnPtrType
      [] e.id = "lam"          -> LambdaType

\* typeid(F) for the parameter const F& func of operator-= : F is deduced
\* without decay, so a function name gives the function type, and a
\* std::function object gives the std::function type itself.
TypeIdF(e) ==
    CASE e.form = "fname"    -> FnType
      [] e.form = "fptr"     -> FnPtrType
      [] e.form = "object"   -> LambdaType
      [] e.form = "function" -> StdFunctionType

\* ---------------------------------------------------------------- arguments
ArgValues == {"hello"}
MovedFrom == ""                      \* a moved-from std::string
ValueCategories == {"lvalue", "rvalue"}

Signatures ==
    { [void |-> TRUE,  param |-> "cref"],
      [void |-> FALSE, param |-> "value"] }

NoExpr == [id |-> "-", form |-> "-"]
NoRet  == <<>>

\* What the caller observed of the last operation:
\*   op, d, src   the operation, its target delegate and (copy/move) its source
\*   e, obj       the callable expression and the object pointer passed to it
\*   idx          operator-=: position erased (0: find_if returned end())
\*   arg, cat     operator(): the argument the caller passed and its value category
\*   err          exception that left the operation ("none": normal return)
\*   log          operator(): the calls made, in order, with the argument received
\*   ret          operator(): value returned (NoRet: nothing returned)
Observed(op, d, src, e, obj, idx, arg, cat, err, log, ret) ==
    [op |-> op, d |-> d, src |-> src, e |-> e, obj |-> obj, idx |-> idx,
     arg |-> arg, cat |-> cat, err |-> err, log |-> log, ret |-> ret]

Init ==
    /\ callbacks_ = [d \in Delegates |-> <<>>]
    /\ sig \in Signatures
    /\ last = Observed("init", "a", "a", NoExpr, NoObj, 0, "-", "-", "none", <<>>, NoRet)

\* ------------------------------------------------------------------ entries
\* The std::function built by emplace_back(std::forward<F>(func)).
MakeFunction(e) == [id |-> e.id, type |-> TargetType(e), obj |-> NoObj]

\* !static_cast<bool>(stored): the entry holds no target.
IsEmptyFunction(cb) == cb.type = VoidType

\* The std::function built from the lambda [object, method](Args... args).
MakeMemberFunction(object, method) ==
    [id |-> method, type |-> MemLamType, obj |-> object]

\* Room left in the model for one more entry in delegate d.
Total == Len(callbacks_["a"]) + Len(callbacks_["b"])
HasRoom(d) == Len(callbacks_[d]) < MaxEntries /\ Total < MaxTotal

\* std::vector::emplace_back
emplace_back(cbs, f) == Append(cbs, f)

\* -------------------------------------------------------------------- bind
\* template<typename F> void bind(F&& func)
bind(d, e) ==
    /\ HasRoom(d)
    /\ callbacks_' = [callbacks_ EXCEPT ![d] = emplace_back(@, MakeFunction(e))]
    /\ last' = Observed("bind", d, d, e, NoObj, 0, "-", "-", "none", <<>>, NoRet)
    /\ UNCHANGED sig

\* Faulty variant of bindMember: the null check is missing.
bindMember_noNullCheck(d, object, method) ==
    /\ HasRoom(d)
    /\ callbacks_' = [callbacks_ EXCEPT
                         ![d] = emplace_back(@, MakeMemberFunction(object, method))]
    /\ last' = Observed("bindMember", d, d, [id |-> method, form |-> "member"],
                        object, 0, "-", "-", "none", <<>>, NoRet)
    /\ UNCHANGED sig

\* template<typename T> void bind(T* object, R (T::*method)(Args...))
\* (and the const overload, which has the same body)
bindMember(d, object, method) ==
    /\ object # NullObj => HasRoom(d)
    /\ IF object = NullObj
       THEN /\ callbacks_' = callbacks_
            /\ last' = Observed("bindMember", d, d, [id |-> method, form |-> "member"],
                                object, 0, "-", "-", "InvalidArgument", <<>>, NoRet)
       ELSE /\ callbacks_' = [callbacks_ EXCEPT
                                 ![d] = emplace_back(@, MakeMemberFunction(object, method))]
            /\ last' = Observed("bindMember", d, d, [id |-> method, form |-> "member"],
                                object, 0, "-", "-", "none", <<>>, NoRet)
    /\ UNCHANGED sig

\* template<typename F> delegate& operator+=(F&& func): forwards to bind
plusAssign(d, e) ==
    /\ HasRoom(d)
    /\ callbacks_' = [callbacks_ EXCEPT ![d] = emplace_back(@, MakeFunction(e))]
    /\ last' = Observed("+=", d, d, e, NoObj, 0, "-", "-", "none", <<>>, NoRet)
    /\ UNCHANGED sig

\* ------------------------------------------------------------- operator-=
\* std::find_if(begin, end, stored.target_type() == typeid(F)): the position
\* of the first match from i on, or Len(cbs) + 1 for end().
RECURSIVE find_if(_, _, _)
find_if(cbs, i, t) ==
    IF i > Len(cbs) THEN Len(cbs) + 1
    ELSE IF cbs[i].type = t THEN i
    ELSE find_if(cbs, i + 1, t)

\* Faulty variant of erase: erase(it, end()) removes the match and all that follows.
erase_toEnd(cbs, it) == SubSeq(cbs, 1, it - 1)

\* std::vector::erase(it)
erase(cbs, it) == SubSeq(cbs, 1, it - 1) \o SubSeq(cbs, it + 1, Len(cbs))

\* template<typename F> delegate& operator-=(const F& func)
minusAssign(d, e) ==
    LET cbs == callbacks_[d]
        it  == find_if(cbs, 1, TypeIdF(e))
    IN  /\ IF it # Len(cbs) + 1
           THEN /\ callbacks_' = [callbacks_ EXCEPT ![d] = erase(cbs, it)]
                /\ last' = Observed("-=", d, d, e, NoObj, it, "-", "-", "none", <<>>, NoRet)
           ELSE /\ callbacks_' = callbacks_
                /\ last' = Observed("-=", d, d, e, NoObj, 0, "-", "-", "none", <<>>, NoRet)
        /\ UNCHANGED sig

\* void clear() noexcept
clear(d) ==
    /\ callbacks_' = [callbacks_ EXCEPT ![d] = <<>>]
    /\ last' = Observed("clear", d, d, NoExpr, NoObj, 0, "-", "-", "none", <<>>, NoRet)
    /\ UNCHANGED sig

\* ------------------------------------------------------------ copy and move
\* Faulty variant of copyConstruct: the member initialiser is missing, the new
\* delegate starts empty.
copyConstruct_copiesNothing(dst, src) ==
    /\ dst # src
    /\ 2 * Len(callbacks_[src]) <= MaxTotal
    /\ callbacks_' = [callbacks_ EXCEPT ![dst] = <<>>]
    /\ last' = Observed("copyConstruct", dst, src, NoExpr, NoObj, 0, "-", "-", "none", <<>>, NoRet)
    /\ UNCHANGED sig

\* delegate(const delegate& other) : callbacks_(other.callbacks_)
\* The object in slot dst is constructed anew from src.
copyConstruct(dst, src) ==
    /\ dst # src
    /\ 2 * Len(callbacks_[src]) <= MaxTotal
    /\ callbacks_' = [callbacks_ EXCEPT ![dst] = callbacks_[src]]
    /\ last' = Observed("copyConstruct", dst, src, NoExpr, NoObj, 0, "-", "-", "none", <<>>, NoRet)
    /\ UNCHANGED sig

\* delegate(delegate&& other) noexcept : callbacks_(std::move(other.callbacks_))
moveConstruct(dst, src) ==
    /\ dst # src
    /\ callbacks_' = [callbacks_ EXCEPT ![dst] = callbacks_[src], ![src] = <<>>]
    /\ last' = Observed("moveConstruct", dst, src, NoExpr, NoObj, 0, "-", "-", "none", <<>>, NoRet)
    /\ UNCHANGED sig

\* delegate& operator=(const delegate& other)
copyAssign(dst, src) ==
    /\ dst # src => 2 * Len(callbacks_[src]) <= MaxTotal
    /\ IF dst # src
       THEN callbacks_' = [callbacks_ EXCEPT ![dst] = callbacks_[src]]
       ELSE callbacks_' = callbacks_
    /\ last' = Observed("copyAssign", dst, src, NoExpr, NoObj, 0, "-", "-", "none", <<>>, NoRet)
    /\ UNCHANGED sig

\* Faulty variant of moveAssign: std::move is missing, the source keeps its entries.
moveAssign_copies(dst, src) ==
    /\ IF dst # src
       THEN callbacks_' = [callbacks_ EXCEPT ![dst] = callbacks_[src]]
       ELSE callbacks_' = callbacks_
    /\ last' = Observed("moveAssign", dst, src, NoExpr, NoObj, 0, "-", "-", "none", <<>>, NoRet)
    /\ UNCHANGED sig

\* delegate& operator=(delegate&& other) noexcept
moveAssign(dst, src) ==
    /\ IF dst # src
       THEN callbacks_' = [callbacks_ EXCEPT ![dst] = callbacks_[src], ![src] = <<>>]
       ELSE callbacks_' = callbacks_
    /\ last' = Observed("moveAssign", dst, src, NoExpr, NoObj, 0, "-", "-", "none", <<>>, NoRet)
    /\ UNCHANGED sig

\* ------------------------------------------------------------- operator()
\* What the callable with identity id computes from the argument it receives.
Result(id, arg) == <<id, arg>>

\* The caller's argument object after std::forward<CallArgs>(args) was passed
\* to std::function<R(Args...)>::operator(): an rvalue bound to a by-value
\* std::string parameter is moved from; an lvalue is copied; a const
\* reference parameter binds without copying.
forward(cur, cat, param) ==
    IF cat = "rvalue" /\ param = "value" THEN MovedFrom ELSE cur

\* One call callback(std::forward<CallArgs>(args)...) in state st:
\*   st.cur  the caller's argument object,  st.log  the calls made so far,
\*   st.err  the exception in flight,       st.ret  the last result produced.
\* An entry without target raises std::bad_function_call and calls nothing.
call(cb, st, cat) ==
    IF IsEmptyFunction(cb)
    THEN [cur |-> forward(st.cur, cat, sig.param),
          log |-> st.log,
          err |-> "BadFunctionCall",
          ret |-> NoRet]
    ELSE [cur |-> forward(st.cur, cat, sig.param),
          log |-> Append(st.log, [id |-> cb.id, arg |-> st.cur]),
          err |-> IF cb.id \in Throwing THEN "CallbackError" ELSE "none",
          ret |-> IF cb.id \in Throwing THEN NoRet ELSE Result(cb.id, st.cur)]

\* Faulty variant of loop: a raising call is caught, the remaining entries are
\* still called and the first error is reported at the end.
RECURSIVE loop_continuesAfterRaise(_, _, _, _, _)
loop_continuesAfterRaise(cbs, i, to, st, cat) ==
    IF i > to THEN st
    ELSE LET nx == call(cbs[i], st, cat)
         IN  loop_continuesAfterRaise(cbs, i + 1, to,
                 [nx EXCEPT !.err = IF st.err # "none" THEN st.err ELSE nx.err], cat)

\* for (i = from; i <= to; ++i) callbacks_[i](...), left as soon as a call raises
RECURSIVE loop(_, _, _, _, _)
loop(cbs, i, to, st, cat) ==
    IF i > to \/ st.err # "none" THEN st
    ELSE loop(cbs, i + 1, to, call(cbs[i], st, cat), cat)

\* Faulty variant of emptyCall: an empty delegate returns normally whatever R is.
emptyCall_neverRaises(st0) == st0

\* if (callbacks_.empty()): return for void R, throw std::runtime_error otherwise
emptyCall(st0) ==
    IF sig.void THEN st0 ELSE [st0 EXCEPT !.err = "RuntimeError"]

\* Faulty variant of voidCalls: the loop stops one entry early, as the non-void loop does.
voidCalls_skipsLast(cbs, st0, cat) ==
    [loop(cbs, 1, Len(cbs) - 1, st0, cat) EXCEPT !.ret = NoRet]

\* void R: for (const auto& callback : callbacks_) callback(...)
voidCalls(cbs, st0, cat) ==
    [loop(cbs, 1, Len(cbs), st0, cat) EXCEPT !.ret = NoRet]

\* Faulty variant of nonVoidCalls: the loop runs over every entry (i < size()), so
\* the last entry is called by the loop and again by back().
nonVoidCalls_loopIncludesLast(cbs, st0, cat) ==
    LET st1 == loop(cbs, 1, Len(cbs), st0, cat)
    IN  IF st1.err # "none" THEN [st1 EXCEPT !.ret = NoRet]
        ELSE call(cbs[Len(cbs)], [st1 EXCEPT !.ret = NoRet], cat)

\* non-void R: for (i = 0; i < size() - 1; ++i) callbacks_[i](...);
\*             return callbacks_.back()(...)
nonVoidCalls(cbs, st0, cat) ==
    LET st1 == loop(cbs, 1, Len(cbs) - 1, st0, cat)
    IN  IF st1.err # "none" THEN [st1 EXCEPT !.ret = NoRet]
        ELSE call(cbs[Len(cbs)], [st1 EXCEPT !.ret = NoRet], cat)

\* R operator()(CallArgs&&... args) const, as the caller sees it
invoke(cbs, v, cat) ==
    LET st0 == [cur |-> v, log |-> <<>>, err |-> "none", ret |-> NoRet]
    IN  IF Len(cbs) = 0 THEN emptyCall(st0)
        ELSE IF sig.void THEN voidCalls(cbs, st0, cat)
        ELSE nonVoidCalls(cbs, st0, cat)

operatorCall(d, v, cat) ==
    LET r == invoke(callbacks_[d], v, cat)
    IN  /\ last' = Observed("call", d, d, NoExpr, NoObj, 0, v, cat, r.err, r.log, r.ret)
        /\ UNCHANGED <<callbacks_, sig>>

\* -------------------------------------------------------------------- spec
Methods == {"m1"}

Next ==
    \/ \E d \in Delegates, e \in CallableExprs : bind(d, e)
    \/ \E d \in Delegates, o \in Objects \cup {NullObj}, m \in Methods : bindMember(d, o, m)
    \/ \E d \in Delegates, e \in CallableExprs : plusAssign(d, e)
    \/ \E d \in Delegates, e \in CallableExprs : minusAssign(d, e)
    \/ \E d \in Delegates : clear(d)
    \/ \E dst \in Delegates, src \in Delegates : copyConstruct(dst, src)
    \/ \E dst \in Delegates, src \in Delegates : moveConstruct(dst, src)
    \/ \E dst \in Delegates, src \in Delegates : copyAssign(dst, src)
    \/ \E dst \in Delegates, src \in Delegates : moveAssign(dst, src)
    \/ \E d \in Delegates, v \in ArgValues, cat \in ValueCategories : operatorCall(d, v, cat)

Spec == Init /\ [][Next]_vars

\* ------------------------------------------------------------- properties
Other(d) == IF d = "a" THEN "b" ELSE "a"

Ids(cbs)    == [i \in 1..Len(cbs) |-> cbs[i].id]
LogIds(log) == [i \in 1..Len(log) |-> log[i].id]

\* Calling the entry raises: its callable raises, or it holds no target.
Raises(cb) == cb.id \in Throwing \/ cb.type = VoidType

NoneRaises(cbs) == \A i \in 1..Len(cbs) : ~Raises(cbs[i])

\* Position of the first entry of cbs that raises when called (0: none does).
FirstRaising(cbs) ==
    IF NoneRaises(cbs) THEN 0
    ELSE CHOOSE i \in 1..Len(cbs) :
            /\ Raises(cbs[i])
            /\ \A j \in 1..(i - 1) : ~Raises(cbs[j])

IsBindOp(op)   == op \in {"bind", "+="}
IsMutateOp(op) == op \in {"bind", "+=", "bindMember", "-=", "clear"}
IsCopyOp(op)   == op \in {"copyConstruct", "copyAssign"}
IsMoveOp(op)   == op \in {"moveConstruct", "moveAssign"}

\* C1: in a void delegate, every successful bind / += appends the callable
\* after the entries already stored, and one invocation of entries that all
\* hold a callable, none of which raises, calls every stored entry exactly
\* once, in stored (bind) order, and returns normally; with no entry it
\* calls nothing and returns.
C1_VoidCallsAllInBindOrder ==
    [][ /\ IsBindOp(last'.op) =>
              /\ Len(callbacks_'[last'.d]) = Len(callbacks_[last'.d]) + 1
              /\ SubSeq(callbacks_'[last'.d], 1, Len(callbacks_[last'.d])) = callbacks_[last'.d]
              /\ callbacks_'[last'.d][Len(callbacks_'[last'.d])].id = last'.e.id
        /\ (last'.op = "call" /\ sig.void /\ NoneRaises(callbacks_[last'.d])) =>
              /\ last'.err = "none"
              /\ LogIds(last'.log) = Ids(callbacks_[last'.d])
              /\ last'.ret = NoRet
      ]_vars

C1_Witness ==
    /\ last.op = "call" /\ sig.void /\ last.err = "none"
    /\ Len(last.log) = 3
    /\ LogIds(last.log) = Ids(callbacks_[last.d])
    /\ \E i, j \in 1..3 : i # j /\ last.log[i].id = last.log[j].id

\* C2: invoking a non-void delegate with N >= 1 entries that all hold a
\* callable, none of which raises, calls entries 1..N-1 in order, then entry
\* N, each exactly once, and returns the result entry N produced; nothing
\* else is called.
C2_NonVoidReturnsLast ==
    [][ (last'.op = "call" /\ ~sig.void /\ Len(callbacks_[last'.d]) >= 1
           /\ NoneRaises(callbacks_[last'.d])) =>
          LET cbs == callbacks_[last'.d]
              N   == Len(cbs)
          IN  /\ last'.err = "none"
              /\ LogIds(last'.log) = Ids(cbs)
              /\ last'.ret = Result(cbs[N].id, last'.log[N].arg)
      ]_vars

C2_Witness ==
    /\ last.op = "call" /\ ~sig.void /\ last.err = "none"
    /\ Len(last.log) = 3
    /\ last.log[1].id # last.log[3].id
    /\ last.ret = Result(last.log[3].id, last.log[3].arg)

\* C3: invoking a non-void delegate that holds no entry raises the runtime
\* error, calls nothing, returns nothing and leaves the delegates unchanged.
C3_EmptyNonVoidRaises ==
    [][ (last'.op = "call" /\ ~sig.void /\ callbacks_[last'.d] = <<>>) =>
          /\ last'.err = "RuntimeError"
          /\ last'.log = <<>>
          /\ last'.ret = NoRet
          /\ callbacks_' = callbacks_
      ]_vars

C3_Witness ==
    /\ last.op = "call" /\ ~sig.void /\ last.err = "RuntimeError"
    /\ callbacks_[last.d] = <<>>
    /\ callbacks_[Other(last.d)] # <<>>

\* C4: bind(object, method) with a null object raises InvalidArgument and
\* leaves every stored sequence as it was; no stored entry is ever bound to
\* a null object.
C4_NullObjectRejected ==
    [][ /\ (last'.op = "bindMember" /\ last'.obj = NullObj) =>
              /\ last'.err = "InvalidArgument"
              /\ callbacks_' = callbacks_
        /\ \A d \in Delegates : \A i \in 1..Len(callbacks_'[d]) :
              callbacks_'[d][i].obj # NullObj
      ]_vars

C4_Witness ==
    /\ last.op = "bindMember" /\ last.obj = NullObj
    /\ last.err = "InvalidArgument"
    /\ Len(callbacks_[last.d]) >= 1

\* C5: d -= c returns normally; when some stored entry's target type equals
\* typeid of c's type, exactly the first such entry is removed and the other
\* entries keep their relative order; otherwise the sequence is unchanged.
C5_RemovesFirstOfType ==
    [][ last'.op = "-=" =>
          LET d   == last'.d
              cbs == callbacks_[d]
              M   == { i \in 1..Len(cbs) : cbs[i].type = TypeIdF(last'.e) }
          IN  /\ last'.err = "none"
              /\ callbacks_'[Other(d)] = callbacks_[Other(d)]
              /\ IF M = {}
                 THEN callbacks_'[d] = cbs
                 ELSE LET k == CHOOSE i \in M : \A j \in M : i <= j
                      IN  callbacks_'[d] =
                             [j \in 1..(Len(cbs) - 1) |-> IF j < k THEN cbs[j] ELSE cbs[j + 1]]
      ]_vars

C5_Witness ==
    /\ last.op = "-=" /\ last.idx = 1
    /\ Len(callbacks_[last.d]) = 2
    /\ callbacks_[last.d][2].type = TypeIdF(last.e)
    /\ callbacks_[last.d][1].type # TypeIdF(last.e)

\* C6 as stated: every move (construction or assignment, whatever the
\* source and the destination) leaves the source with no entry and the
\* destination with the entries the source held, in the same order.
C6_MoveAlwaysEmptiesSource ==
    [][ IsMoveOp(last'.op) =>
          /\ callbacks_'[last'.src] = <<>>
          /\ callbacks_'[last'.d] = callbacks_[last'.src]
      ]_vars

\* C6 amended: a move between two distinct delegates leaves the source
\* with no entry and the destination with the entries the source held, in
\* the same order; move-assigning a delegate to itself leaves it unchanged.
C6_MoveTransfersBetweenDistinct ==
    [][ IsMoveOp(last'.op) =>
          IF last'.src # last'.d
          THEN /\ callbacks_'[last'.src] = <<>>
               /\ callbacks_'[last'.d] = callbacks_[last'.src]
          ELSE callbacks_' = callbacks_
      ]_vars

C6_Witness ==
    /\ last.op = "moveAssign" /\ last.src # last.d
    /\ callbacks_[last.src] = <<>>
    /\ Len(callbacks_[last.d]) = 3

\* C7: a copy (construction or assignment) gives the destination the
\* source's entries, so that invoking it calls the same callables in the
\* same order, and leaves the source unchanged; bind, +=, -= and clear on one
\* delegate leave the other delegate's sequence unchanged.
C7_CopyIsEqualAndIndependent ==
    [][ /\ IsCopyOp(last'.op) =>
              /\ Len(callbacks_'[last'.d]) = Len(callbacks_[last'.src])
              /\ callbacks_'[last'.src] = callbacks_[last'.src]
              /\ \A v \in ArgValues, cat \in ValueCategories :
                    invoke(callbacks_'[last'.d], v, cat).log
                       = invoke(callbacks_[last'.src], v, cat).log
        /\ IsMutateOp(last'.op) =>
              callbacks_'[Other(last'.d)] = callbacks_[Other(last'.d)]
      ]_vars

C7_Witness ==
    /\ IsCopyOp(last.op) /\ last.src # last.d
    /\ Len(callbacks_[last.d]) = 2
    /\ callbacks_[last.d] = callbacks_[last.src]
    /\ callbacks_[last.d][1] # callbacks_[last.d][2]

\* C8: when the entry at position i is the first that raises (its callable
\* raises, or the entry holds no target and std::function raises), the
\* invocation ends with that entry's error, entries 1..i-1 have been called
\* exactly once each in order, entry i's callable (if it has one) once after
\* them, no later entry has been called, nothing is returned and the stored
\* sequences are unchanged.
C8_RaisePropagatesImmediately ==
    [][ (last'.op = "call" /\ ~NoneRaises(callbacks_[last'.d])) =>
          LET cbs == callbacks_[last'.d]
              i   == FirstRaising(cbs)
          IN  /\ last'.err = IF cbs[i].type = VoidType THEN "BadFunctionCall"
                                                        ELSE "CallbackError"
              /\ Len(last'.log) \in {i - 1, i}
              /\ Len(last'.log) = i <=> cbs[i].type # VoidType
              /\ \A j \in 1..Len(last'.log) : last'.log[j].id = cbs[j].id
              /\ last'.ret = NoRet
              /\ callbacks_' = callbacks_
      ]_vars

C8_Witness ==
    /\ last.op = "call" /\ last.err = "CallbackError"
    /\ Len(callbacks_[last.d]) = 3
    /\ Len(last.log) = 2
    /\ callbacks_[last.d][2].id \in Throwing

\* C9: in one invocation every called entry receives the argument value the
\* caller passed, whatever the argument's value category and the way the
\* signature takes the parameter.
C9_EveryEntryReceivesCallerArgument ==
    last.op = "call" =>
        \A i \in 1..Len(last.log) : last.log[i].arg = last.arg

\* C10: d.bind(c) (or d += c) directly followed by d -= c with the same
\* expression c, where d held no entry of c's type before the bind, restores
\* the sequence d held before the bind.
C10_BindThenRemoveRestores ==
    [][ (/\ IsBindOp(last.op) /\ last'.op = "-="
         /\ last'.d = last.d /\ last'.e = last.e
         /\ \A i \in 1..(Len(callbacks_[last.d]) - 1) :
               callbacks_[last.d][i].type \notin {TargetType(last.e), TypeIdF(last.e)})
        => callbacks_'[last.d] = SubSeq(callbacks_[last.d], 1, Len(callbacks_[last.d]) - 1)
      ]_vars

====
